---------------------------- MODULE Spec2Model ----------------------------
(***************************************************************************)
(* venus: the state-type-gen code generator (venus-devtool/state-type-gen) *)
(* and the generated gateway proxy structs (venus-shared/api/gateway/v1).  *)
(*                                                                         *)
(* The generator is modelled as the straight-line batch it is: toList,     *)
(* then for each pending package FindPackageLocation, ParseDir (with the   *)
(* directory-entry filter), ast.Walk of every parsed file, the two sorts,  *)
(* and finally writeFile (render, FmtFile, os.WriteFile).  The proxies are *)
(* modelled as a call of one forwarding method on an injected function     *)
(* table.                                                                  *)
(***************************************************************************)
EXTENDS Integers, Sequences, FiniteSets, TLC

VARIABLES
    pc,         \* where run / writeFile stands
    list,       \* toList(pendingPkgs): the packages in processing order
    idx,        \* index in list of the package being processed
    dirs,       \* package name -> the directory listing handed to ParseDir
    walked,     \* names of the files of the current package already walked
    visitor,    \* the current package's metaVisitor
    metas,      \* the metaVisitors appended so far
    buffer,     \* writeFile's fileBuffer, a sequence of lines
    formatted,  \* formatedBuf, or NoBuf before FmtFile has returned it
    err,        \* the error run returns, or "nil"
    dst,        \* the content of the destination path
    dst0,       \* the content of the destination path when run started
    writes,     \* how many times the destination has been opened for writing
    pcall,      \* proxy: the forwarding method called and its arguments
    invoked,    \* proxy: the Internal fields invoked by that call, in order
    pret,       \* proxy: what the forwarding method returned
    internal    \* proxy: struct -> the fields of its Internal function table

genVars == <<pc, list, idx, dirs, walked, visitor, metas, buffer, formatted,
             err, dst, dst0, writes>>
proxyVars == <<pcall, invoked, pret, internal>>
vars == <<genVars, proxyVars>>

None == "none"

\* How many source files the scanned directories hold altogether.
MaxFiles == 2

-----------------------------------------------------------------------------
(* Strings.  Go compares and searches strings byte by byte; every string    *)
(* the model orders or searches is given by its bytes.                      *)

Bytes ==
    "market" :> <<109, 97, 114, 107, 101, 116>> @@
    "miner" :> <<109, 105, 110, 101, 114>> @@
    "paych" :> <<112, 97, 121, 99, 104>> @@
    "verifreg" :> <<118, 101, 114, 105, 102, 114, 101, 103>> @@
    "State" :> <<83, 116, 97, 116, 101>> @@
    "MinerInfo" :> <<77, 105, 110, 101, 114, 73, 110, 102, 111>> @@
    "ConstructState" :> <<67, 111, 110, 115, 116, 114, 117, 99, 116, 83, 116, 97, 116, 101>> @@
    "Partition" :> <<80, 97, 114, 116, 105, 116, 105, 111, 110>> @@
    "Deadline" :> <<68, 101, 97, 100, 108, 105, 110, 101>> @@
    "WithdrawBalanceParams" :> <<87, 105, 116, 104, 100, 114, 97, 119, 66, 97, 108, 97, 110, 99, 101, 80, 97, 114, 97, 109, 115>> @@
    "MarketWithdrawBalanceParams" :> <<77, 97, 114, 107, 101, 116, 87, 105, 116, 104, 100, 114, 97, 119, 66, 97, 108, 97, 110, 99, 101, 80, 97, 114, 97, 109, 115>> @@
    "MinerWithdrawBalanceParams" :> <<77, 105, 110, 101, 114, 87, 105, 116, 104, 100, 114, 97, 119, 66, 97, 108, 97, 110, 99, 101, 80, 97, 114, 97, 109, 115>> @@
    "NoAllocationID" :> <<78, 111, 65, 108, 108, 111, 99, 97, 116, 105, 111, 110, 73, 68>> @@
    "Foob" :> <<70, 111, 111, 98>> @@
    "FooZ" :> <<70, 111, 111, 90>> @@
    "Bar" :> <<66, 97, 114>> @@
    "Baz" :> <<66, 97, 122>> @@
    "Abs" :> <<65, 98, 115>> @@
    "Cid" :> <<67, 105, 100>> @@
    "addr" :> <<97, 100, 100, 114>> @@
    "bar" :> <<98, 97, 114>> @@
    "cbor_gen.go" :> <<99, 98, 111, 114, 95, 103, 101, 110, 46, 103, 111>> @@
    "_test.go" :> <<95, 116, 101, 115, 116, 46, 103, 111>> @@
    "invariants.go" :> <<105, 110, 118, 97, 114, 105, 97, 110, 116, 115, 46, 103, 111>> @@
    "methods.go" :> <<109, 101, 116, 104, 111, 100, 115, 46, 103, 111>> @@
    "deal_test.go" :> <<100, 101, 97, 108, 95, 116, 101, 115, 116, 46, 103, 111>> @@
    "sector_methods.go" :> <<115, 101, 99, 116, 111, 114, 95, 109, 101, 116, 104, 111, 100, 115, 46, 103, 111>> @@
    "types.go" :> <<116, 121, 112, 101, 115, 46, 103, 111>> @@
    "policy.go" :> <<112, 111, 108, 105, 99, 121, 46, 103, 111>>

\* Go's a < b on strings: bytewise lexicographic, a proper prefix first.
RECURSIVE SeqLess(_, _)
SeqLess(a, b) ==
    IF b = <<>> THEN FALSE
    ELSE IF a = <<>> THEN TRUE
    ELSE IF Head(a) # Head(b) THEN Head(a) < Head(b)
    ELSE SeqLess(Tail(a), Tail(b))

StrLess(a, b) == SeqLess(Bytes[a], Bytes[b])

\* strings.Contains(s, substr)
Contains(s, substr) ==
    LET bs == Bytes[s]
        bp == Bytes[substr]
    IN \E i \in 1..(Len(bs) - Len(bp) + 1) :
           SubSeq(bs, i, i + Len(bp) - 1) = bp

\* ast.IsExported(name): the first byte is an upper-case letter.
IsExported(name) == Bytes[name][1] \in 65..90

\* Insertion of string x into an ascending sequence of strings.
RECURSIVE InsertString(_, _)
InsertString(x, s) ==
    IF s = <<>> THEN <<x>>
    ELSE IF StrLess(x, Head(s)) THEN <<x>> \o s
    ELSE <<Head(s)>> \o InsertString(x, Tail(s))

\* A sort that leaves the slice as it is.
KeepOrder(s) == s

\* sort.Slice(s, func(i, j) bool { return s[i] < s[j] }) on a []string.
RECURSIVE SortStrings(_)
SortStrings(s) ==
    IF s = <<>> THEN <<>>
    ELSE InsertString(Head(s), SortStrings(Tail(s)))

-----------------------------------------------------------------------------
(* The generator's tables.                                                  *)

PkgNames == {"paych", "market", "miner", "verifreg"}

\* pendingPkgs: name -> pendingPkg; the path is prePath/v<ver>/<name>.
pendingPkgs ==
    [n \in PkgNames |->
        [name |-> n,
         ver  |-> IF n = "paych" THEN "Version8" ELSE "LatestVersion",
         path |-> <<"github.com/filecoin-project/go-state-types/builtin",
                    IF n = "paych" THEN "Version8" ELSE "LatestVersion", n>>]]

skips == {"State", "MinerInfo", "ConstructState", "Partition", "Deadline"}

skipFuncs == {"ConstructState"}

\* alias: type name -> the (pkgName, newName) pairs, in the order written.
alias ==
    "WithdrawBalanceParams" :>
        << [pkgName |-> "market", newName |-> "MarketWithdrawBalanceParams"],
           [pkgName |-> "miner",  newName |-> "MinerWithdrawBalanceParams"] >>

expectVals == {"NoAllocationID"}

-----------------------------------------------------------------------------
(* The source trees the generator reads.                                    *)
(*                                                                          *)
(* A node is what ast.Walk hands to Visit: a TypeSpec (names[1], shape), a  *)
(* FuncDecl (names[1], recv), a ValueSpec (names) or any other node.  A     *)
(* TypeSpec or ValueSpec inside a function body is a node like any other.   *)

TypeSpec(name, shape) ==
    [kind |-> "TypeSpec", names |-> <<name>>, shape |-> shape, recv |-> FALSE]
FuncDecl(name, recv) ==
    [kind |-> "FuncDecl", names |-> <<name>>, shape |-> None, recv |-> recv]
ValueSpec(names) ==
    [kind |-> "ValueSpec", names |-> names, shape |-> None, recv |-> FALSE]
OtherNode ==
    [kind |-> "Other", names |-> <<>>, shape |-> None, recv |-> FALSE]

\* What the hand-written files of the scanned directories hold: the package
\* clause, whether the text parses, and the nodes of the syntax tree in
\* ast.Walk's order.
SpecExample ==
    \* an aggregate type, a skip-listed type, a function, a constant that is
    \* not allow-listed, an unexported type, a type of another shape
    [clause |-> "own", ok |-> TRUE,
     nodes |-> << OtherNode, TypeSpec("Foob", "StructType"),
                  TypeSpec("State", "StructType"), FuncDecl("Bar", FALSE),
                  ValueSpec(<<"Baz">>), TypeSpec("addr", "StructType"),
                  TypeSpec("Cid", "MapType") >>]

Params ==
    \* the renamed type, an alias type, the skip-listed function, the
    \* allow-listed constant, an unexported function, a function
    [clause |-> "own", ok |-> TRUE,
     nodes |-> << TypeSpec("WithdrawBalanceParams", "StructType"),
                  TypeSpec("FooZ", "Ident"), FuncDecl("ConstructState", FALSE),
                  ValueSpec(<<"NoAllocationID">>), FuncDecl("bar", FALSE),
                  FuncDecl("Abs", FALSE) >>]

Variant ==
    \* the same names again (a build-tagged variant, a second package clause,
    \* a type local to a function body), a method, a two-name value
    \* declaration, an unexported variable
    [clause |-> "alt", ok |-> TRUE,
     nodes |-> << FuncDecl("Bar", TRUE), FuncDecl("Bar", FALSE),
                  TypeSpec("Foob", "StructType"), FuncDecl("Abs", FALSE),
                  ValueSpec(<<"Baz", "NoAllocationID">>),
                  ValueSpec(<<"addr">>) >>]

Broken ==
    \* a file with a syntax error
    [clause |-> "own", ok |-> FALSE, nodes |-> <<>>]

Sources == {SpecExample, Params, Variant, Broken}

File(n, s) == [name |-> n, clause |-> s.clause, ok |-> s.ok, nodes |-> s.nodes]

FileNames ==
    {"types.go", "policy.go", "cbor_gen.go", "deal_test.go", "invariants.go",
     "sector_methods.go"}

\* The directory entries the scanned directories are made of: hand-written
\* sources of every kind under two names, and a generated-encoding file, a
\* test file, an invariant-check file and a method-table file, each with
\* declarations of all three kinds, the test file also with a syntax error.
Files ==
    { File(n, s) : n \in {"types.go", "policy.go"}, s \in Sources }
    \cup { File(n, Params) : n \in FileNames }
    \cup { File("deal_test.go", Broken) }

\* The directories of at most k files (a directory holds a name once).
RECURSIVE DirsUpTo(_)
DirsUpTo(k) ==
    IF k <= 0 THEN {{}}
    ELSE LET prev == DirsUpTo(k - 1)
         IN prev \cup { d \cup {f} : d \in prev,
                        f \in Files }

Directories(k) ==
    { d \in DirsUpTo(k) : \A f, g \in d : f.name = g.name => f = g }

\* The directories a package may have, by the number of files still allowed.
DirectoriesByBudget == [k \in 0..MaxFiles |-> Directories(k)]

-----------------------------------------------------------------------------
(* The generator's functions.                                               *)

RECURSIVE InsertPkg(_, _)
InsertPkg(x, s) ==
    IF s = <<>> THEN <<x>>
    ELSE IF StrLess(x.name, Head(s).name) THEN <<x>> \o s
    ELSE <<Head(s)>> \o InsertPkg(x, Tail(s))

\* sort.Slice(list, func(i, j) bool { return list[i].name < list[j].name })
RECURSIVE SortPkgs(_)
SortPkgs(s) ==
    IF s = <<>> THEN <<>>
    ELSE InsertPkg(Head(s), SortPkgs(Tail(s)))

\* The orders in which `for _, pkg := range pkgs` may yield the map's keys.
MapOrders(keys) ==
    { o \in [1..Cardinality(keys) -> keys] :
        \A i, j \in DOMAIN o : i # j => o[i] # o[j] }

\* toList without its sort: the packages in the map's iteration order.
toListUnsorted(order) == [i \in DOMAIN order |-> pendingPkgs[order[i]]]

\* toList(pkgs), the map being iterated in `order`.
toList(order) ==
    SortPkgs([i \in DOMAIN order |-> pendingPkgs[order[i]]])

\* filter without its last test, the one for methods.go.
filterWithoutMethods(name) ==
    IF Contains(name, "cbor_gen.go") THEN FALSE
    ELSE IF Contains(name, "_test.go") THEN FALSE
    ELSE IF Contains(name, "invariants.go") THEN FALSE
    ELSE TRUE

\* filter(fi): whether ParseDir parses the entry named `name`.
filter(name) ==
    IF Contains(name, "cbor_gen.go") THEN FALSE
    ELSE IF Contains(name, "_test.go") THEN FALSE
    ELSE IF Contains(name, "invariants.go") THEN FALSE
    ELSE IF Contains(name, "methods.go") THEN FALSE
    ELSE TRUE

\* &metaVisitor{pkgName: name}
NewVisitor(name) == [pkgName |-> name, f |-> <<>>, t |-> <<>>, v |-> <<>>]

\* metaVisitor.Visit(node): the visitor after the call.
Visit(v, node) ==
    IF node.kind = "TypeSpec" THEN
        IF ~IsExported(node.names[1]) THEN v
        ELSE IF node.names[1] \notin skips /\ node.shape \in {"StructType", "Ident"}
             THEN [v EXCEPT !.t = Append(@, node.names[1])]
             ELSE v
    ELSE IF node.kind = "FuncDecl" THEN
        IF ~IsExported(node.names[1]) \/ node.recv THEN v
        ELSE IF node.names[1] \notin skipFuncs
             THEN [v EXCEPT !.f = Append(@, node.names[1])]
             ELSE v
    ELSE IF node.kind = "ValueSpec" THEN
        IF ~IsExported(node.names[1]) \/ Len(node.names) = 0 THEN v
        ELSE IF node.names[1] \in expectVals
             THEN [v EXCEPT !.v = Append(@, node.names[1])]
             ELSE v
    ELSE v

\* ast.Walk(visitor, file): Visit on every node of the file, in order.
RECURSIVE Walk(_, _)
Walk(v, nodes) ==
    IF nodes = <<>> THEN v ELSE Walk(Visit(v, Head(nodes)), Tail(nodes))

\* run with only the first of its two sorts: visitor.t stays as collected.
SortFuncsOnly(v) == [v EXCEPT !.f = SortStrings(v.f)]

\* The two sort.Slice calls of run, on visitor.f and visitor.t.
SortVisitor(v) ==
    [v EXCEPT !.f = SortStrings(v.f), !.t = SortStrings(v.t)]

\* The lines writeFile prints.
HeaderLine == <<"// Code generated ... DO NOT EDIT.", "package", "types">>
ImportOpen == <<"import (">>
ImportLine(path) == <<"import", path>>
ImportClose == <<")">>
BlankLine == <<"">>
SeparatorLine(pkg) == <<"//////////", pkg>>
TypeLine(new, pkg, typ) == <<"type", new, pkg, typ>>
VarLine(f, pkg) == <<"var", f, pkg, f>>
ConstLine(c, pkg) == <<"const", c, pkg, c>>

\* The alias lines writeFile prints for one collected type name.
RECURSIVE AliasLines(_, _, _)
AliasLines(vals, pkg, typ) ==
    IF vals = <<>> THEN <<>>
    ELSE (IF Head(vals).pkgName = pkg
          THEN <<TypeLine(Head(vals).newName, pkg, typ)>>
          ELSE <<>>) \o AliasLines(Tail(vals), pkg, typ)

TypeLines(pkg, typ) ==
    IF typ \in DOMAIN alias THEN AliasLines(alias[typ], pkg, typ)
    ELSE <<TypeLine(typ, pkg, typ)>>

RECURSIVE Concat(_)
Concat(ss) == IF ss = <<>> THEN <<>> ELSE Head(ss) \o Concat(Tail(ss))

\* The group writeFile prints for one metaVisitor.
Group(meta) ==
    <<SeparatorLine(meta.pkgName)>>
    \o Concat([i \in DOMAIN meta.t |-> TypeLines(meta.pkgName, meta.t[i])])
    \o [i \in DOMAIN meta.f |-> VarLine(meta.f[i], meta.pkgName)]
    \o [i \in DOMAIN meta.v |-> ConstLine(meta.v[i], meta.pkgName)]
    \o <<BlankLine, BlankLine>>

\* The fileBuffer writeFile assembles from metas.
Render(ms) ==
    <<HeaderLine, BlankLine, ImportOpen>>
    \o [i \in DOMAIN ms |-> ImportLine(pendingPkgs[ms[i].pkgName].path)]
    \o <<ImportClose, BlankLine>>
    \o Concat([i \in DOMAIN ms |-> Group(ms[i])])

\* util.FmtFile("", buf) when it succeeds: the canonical form of buf.
FmtFile(buf) == <<"gofmt", buf>>

-----------------------------------------------------------------------------
(* run and writeFile, step by step.                                         *)

NoBuf == <<>>
Absent == <<"absent">>
OldContent == <<"old content">>
Truncated == <<"truncated">>

\* The package run is processing.
Cur == list[idx]

\* The entry names the filter accepts.
Accepted == {n \in FileNames : filter(n)}

\* The files of directory d that ParseDir parses: those the filter accepts.
Parsed(d) == {f \in d : f.name \in Accepted}

\* ParseDir's error dropped: run goes on as if every file had parsed.
ParseErrorIgnored(d) == FALSE

\* Whether ParseDir(fset, location, filter, mode) returns an error for d.
ParseError(d) == \E f \in Parsed(d) : ~f.ok

\* How many files the directories read so far hold.
RECURSIVE CountFiles(_)
CountFiles(ps) ==
    IF ps = {} THEN 0
    ELSE LET p == CHOOSE q \in ps : TRUE
         IN Cardinality(dirs[p]) + CountFiles(ps \ {p})

\* The files `for _, pkg := range pkgs { for _, file := range pkg.Files`
\* may yield next: any file of a package clause already begun, or, when no
\* clause is half done, any file not walked yet.
NextFiles(d, done) ==
    LET left == {f \in Parsed(d) : f.name \notin done}
        begun == {f \in left : \E g \in Parsed(d) :
                     g.name \in done /\ g.clause = f.clause}
    IN IF begun # {} THEN begun ELSE left

GenInit ==
    /\ pc = "toList"
    /\ list = <<>>
    /\ idx = 1
    /\ dirs = [p \in PkgNames |-> {}]
    /\ walked = {}
    /\ visitor = NewVisitor("")
    /\ metas = <<>>
    /\ buffer = <<>>
    /\ formatted = NoBuf
    /\ err = "nil"
    /\ dst \in {Absent, OldContent}
    /\ dst0 = dst
    /\ writes = 0

\* run: toList(pendingPkgs)
ToList ==
    /\ UNCHANGED proxyVars
    /\ pc = "toList"
    /\ \E o \in MapOrders(PkgNames) : list' = toList(o)
    /\ pc' = "find"
    /\ UNCHANGED <<idx, dirs, walked, visitor, metas, buffer, formatted, err,
                   dst, dst0, writes>>

\* run: util.FindPackageLocation(pkg.path) and its error check
FindPackageLocation ==
    /\ UNCHANGED proxyVars
    /\ pc = "find"
    /\ \/ /\ pc' = "parse"
          /\ err' = err
       \/ /\ pc' = "failed"
          /\ err' = "FindPackageLocation"
    /\ UNCHANGED <<list, idx, dirs, walked, visitor, metas, buffer, formatted,
                   dst, dst0, writes>>

\* run: parser.ParseDir(fset, location, filter, ...), its error check, and
\* the new metaVisitor
ParseDir ==
    /\ UNCHANGED proxyVars
    /\ pc = "parse"
    /\ \E d \in DirectoriesByBudget[MaxFiles - CountFiles(PkgNames)] :
          /\ dirs' = [dirs EXCEPT ![Cur.name] = d]
          /\ IF ParseError(d)
             THEN /\ pc' = "failed"
                  /\ err' = "ParseDir"
                  /\ UNCHANGED visitor
             ELSE /\ pc' = "walk"
                  /\ err' = err
                  /\ visitor' = NewVisitor(Cur.name)
    /\ walked' = {}
    /\ UNCHANGED <<list, idx, metas, buffer, formatted, dst, dst0, writes>>

\* run: ast.Walk(visitor, file) for the next file of the nested loops
WalkFile ==
    /\ UNCHANGED proxyVars
    /\ pc = "walk"
    /\ \E f \in NextFiles(dirs[Cur.name], walked) :
          /\ visitor' = Walk(visitor, f.nodes)
          /\ walked' = walked \cup {f.name}
    /\ UNCHANGED <<pc, list, idx, dirs, metas, buffer, formatted, err, dst,
                   dst0, writes>>

\* run: the loops over the parsed files are done: sort visitor.f and
\* visitor.t, append the visitor to metas, go on to the next package
SortAppend ==
    /\ UNCHANGED proxyVars
    /\ pc = "walk"
    /\ NextFiles(dirs[Cur.name], walked) = {}
    /\ metas' = Append(metas, SortVisitor(visitor))
    /\ IF idx = Len(list)
       THEN pc' = "render" /\ idx' = idx
       ELSE pc' = "find" /\ idx' = idx + 1
    /\ UNCHANGED <<list, dirs, walked, visitor, buffer, formatted, err, dst,
                   dst0, writes>>

\* writeFile: the fileBuffer is assembled
RenderBuffer ==
    /\ UNCHANGED proxyVars
    /\ pc = "render"
    /\ buffer' = Render(metas)
    /\ pc' = "fmt"
    /\ UNCHANGED <<list, idx, dirs, walked, visitor, metas, formatted, err,
                   dst, dst0, writes>>

\* writeFile: util.FmtFile("", fileBuffer.Bytes()) and its error check
Format ==
    /\ UNCHANGED proxyVars
    /\ pc = "fmt"
    /\ \/ /\ formatted' = FmtFile(buffer)
          /\ pc' = "write"
          /\ err' = err
       \/ /\ formatted' = formatted
          /\ pc' = "failed"
          /\ err' = "FmtFile"
    /\ UNCHANGED <<list, idx, dirs, walked, visitor, metas, buffer, dst, dst0,
                   writes>>

\* writeFile: os.WriteFile(dst, formatedBuf, 0o755); when it fails the file
\* is as it was or has been truncated
WriteFile ==
    /\ UNCHANGED proxyVars
    /\ pc = "write"
    /\ writes' = writes + 1
    /\ \/ /\ dst' = formatted
          /\ pc' = "done"
          /\ err' = err
       \/ /\ dst' \in {dst, Truncated}
          /\ pc' = "failed"
          /\ err' = "WriteFile"
    /\ UNCHANGED <<list, idx, dirs, walked, visitor, metas, buffer, formatted,
                   dst0>>

Next ==
    \/ ToList
    \/ FindPackageLocation
    \/ ParseDir
    \/ WalkFile
    \/ SortAppend
    \/ RenderBuffer
    \/ Format
    \/ WriteFile

-----------------------------------------------------------------------------
(* The generated proxy structs of venus-shared/api/gateway/v1.              *)

\* The largest value an argument of a proxy call takes.
MaxArg == 1

NoCall == [struct |-> None, method |-> None, args |-> <<>>]
NoReturn == <<>>

\* One forwarding method: `func (s *struct) method(p0, ..., p<arity-1>)`
\* whose body is `return s.Internal.field(p<pass[1]>, ..., p<pass[n]>)`.
Fw(struct, method, arity, field, pass) ==
    [struct |-> struct, method |-> method, arity |-> arity, field |-> field,
     pass |-> pass]

Forwarders ==
    { Fw("IProofClientStruct", "ComputeProof", 6, "ComputeProof", <<0, 1, 2, 3, 4, 5>>),
      Fw("IProofClientStruct", "ListConnectedMiners", 1, "ListConnectedMiners", <<0>>),
      Fw("IProofClientStruct", "ListMinerConnection", 2, "ListMinerConnection", <<0, 1>>),
      Fw("IProofServiceProviderStruct", "ListenProofEvent", 2, "ListenProofEvent", <<0, 1>>),
      Fw("IProofServiceProviderStruct", "ResponseProofEvent", 2, "ResponseProofEvent", <<0, 1>>),
      Fw("IWalletClientStruct", "ListWalletInfo", 1, "ListWalletInfo", <<0>>),
      Fw("IWalletClientStruct", "ListWalletInfoByWallet", 2, "ListWalletInfoByWallet", <<0, 1>>),
      Fw("IWalletClientStruct", "WalletHas", 3, "WalletHas", <<0, 1, 2>>),
      Fw("IWalletClientStruct", "WalletSign", 5, "WalletSign", <<0, 1, 2, 3, 4>>),
      Fw("IWalletServiceProviderStruct", "AddNewAddress", 3, "AddNewAddress", <<0, 1, 2>>),
      Fw("IWalletServiceProviderStruct", "ListenWalletEvent", 2, "ListenWalletEvent", <<0, 1>>),
      Fw("IWalletServiceProviderStruct", "RemoveAddress", 3, "RemoveAddress", <<0, 1, 2>>),
      Fw("IWalletServiceProviderStruct", "ResponseWalletEvent", 2, "ResponseWalletEvent", <<0, 1>>),
      Fw("IWalletServiceProviderStruct", "SupportNewAccount", 3, "SupportNewAccount", <<0, 1, 2>>),
      Fw("IMarketClientStruct", "IsUnsealed", 6, "IsUnsealed", <<0, 1, 2, 3, 4, 5>>),
      Fw("IMarketClientStruct", "ListMarketConnectionsState", 1, "ListMarketConnectionsState", <<0>>),
      Fw("IMarketClientStruct", "SectorsUnsealPiece", 7, "SectorsUnsealPiece", <<0, 1, 2, 3, 4, 5, 6>>),
      Fw("IMarketServiceProviderStruct", "ListenMarketEvent", 2, "ListenMarketEvent", <<0, 1>>),
      Fw("IMarketServiceProviderStruct", "ResponseMarketEvent", 2, "ResponseMarketEvent", <<0, 1>>),
      Fw("IGatewayStruct", "Version", 1, "Version", <<0>>) }

\* The fields of each struct's own Internal function table.
InternalFields ==
    "IProofClientStruct" :> {"ComputeProof", "ListConnectedMiners", "ListMinerConnection"} @@
    "IProofServiceProviderStruct" :> {"ListenProofEvent", "ResponseProofEvent"} @@
    "IWalletClientStruct" :> {"ListWalletInfo", "ListWalletInfoByWallet", "WalletHas", "WalletSign"} @@
    "IWalletServiceProviderStruct" :> {"AddNewAddress", "ListenWalletEvent", "RemoveAddress", "ResponseWalletEvent", "SupportNewAccount"} @@
    "IMarketClientStruct" :> {"IsUnsealed", "ListMarketConnectionsState", "SectorsUnsealPiece"} @@
    "IMarketServiceProviderStruct" :> {"ListenMarketEvent", "ResponseMarketEvent"} @@
    "IGatewayStruct" :> {"Version"}

\* What the injected functions may return: a value and an error.
Returns == (0..MaxArg) \X {"nil", "error"}

\* A forwarder that passes its arguments in reverse.
ForwardReversed(fw, args) ==
    [struct |-> fw.struct, field |-> fw.field,
     args |-> [i \in DOMAIN fw.pass |->
                 args[fw.pass[Len(fw.pass) + 1 - i] + 1]]]

\* The invocation the body of forwarder fw makes when called with args.
Forward(fw, args) ==
    [struct |-> fw.struct, field |-> fw.field,
     args |-> [i \in DOMAIN fw.pass |-> args[fw.pass[i] + 1]]]

\* A forwarding method is called; the injected function returns r.
Call ==
    /\ pcall = NoCall
    /\ \E fw \in Forwarders :
      \E args \in [1..fw.arity -> 0..MaxArg], r \in Returns :
        LET inv == Forward(fw, args)
        IN /\ inv.field \in internal[inv.struct]
           /\ pcall' = [struct |-> fw.struct, method |-> fw.method, args |-> args]
           /\ invoked' = <<[call |-> inv, ret |-> r]>>
           /\ pret' = r
           /\ internal' = internal
    /\ UNCHANGED genVars

\* The caller takes the result; the struct is ready for the next call.
Return ==
    /\ pcall # NoCall
    /\ pcall' = NoCall
    /\ invoked' = <<>>
    /\ pret' = NoReturn
    /\ internal' = internal
    /\ UNCHANGED genVars

ProxyInit ==
    /\ pcall = NoCall
    /\ invoked = <<>>
    /\ pret = NoReturn
    /\ internal = InternalFields

Init == GenInit /\ ProxyInit

Spec == Init /\ [][Next]_vars

ProxyNext ==
    \/ Call
    \/ Return

SpecProxy == Init /\ [][ProxyNext]_vars

-----------------------------------------------------------------------------
(* Properties.                                                              *)

ExcludedPatterns == {"cbor_gen.go", "_test.go", "invariants.go", "methods.go"}

\* The file names that contain one of the four excluded substrings.
ExcludedNames ==
    {n \in FileNames : \E pat \in ExcludedPatterns : Contains(n, pat)}

ExcludedName(name) == name \in ExcludedNames

\* The files of directory d that are not excluded by name.
Scanned(d) == {f \in d : ~ExcludedName(f.name)}

Range(s) == {s[i] : i \in DOMAIN s}

\* The fileBuffer has been assembled.
Rendered == buffer # <<>>

\* The packages whose metaVisitor has been appended to metas.
Collected == {metas[i].pkgName : i \in DOMAIN metas}

\* C1: when package-location resolution or directory parsing fails for any
\* pending package, or formatting of the assembled buffer fails, the
\* destination is never written (neither created nor modified) and the
\* error is returned; the destination is written at most once, and only
\* after every package has been resolved, parsed and visited and formatting
\* has succeeded.
NoWriteOnFailure ==
    /\ err \in {"FindPackageLocation", "ParseDir", "FmtFile"}
          => pc = "failed" /\ writes = 0 /\ dst = dst0
    /\ (\E p \in PkgNames : \E f \in Scanned(dirs[p]) : ~f.ok)
          => err = "ParseDir" /\ writes = 0 /\ dst = dst0
    /\ pc = "failed" => err # "nil"
    /\ dst # dst0 => writes > 0
    /\ writes > 0
          => /\ writes = 1
             /\ Collected = PkgNames
             /\ Len(metas) = Cardinality(PkgNames)
             /\ buffer = Render(metas)
             /\ formatted = FmtFile(buffer)
             /\ err \in {"nil", "WriteFile"}

\* A parse failure in a package after the first, with a destination file
\* already there.
ParseFailureLate ==
    /\ pc = "failed"
    /\ err = "ParseDir"
    /\ idx > 1
    /\ dst0 = OldContent
    /\ dst = OldContent

\* The names a file declares.
DeclNames(f) == UNION {Range(f.nodes[i].names) : i \in DOMAIN f.nodes}

\* The names collected by a visitor.
ListedNames(v) == Range(v.t) \cup Range(v.f) \cup Range(v.v)

\* The names the lines of the buffer bind for package p.
BoundNames(p) ==
    {buffer[i][4] : i \in {j \in DOMAIN buffer :
        Len(buffer[j]) = 4 /\ buffer[j][3] = p}}

\* C5: a file whose name contains cbor_gen.go, _test.go, invariants.go or
\* methods.go is rejected by the filter before parsing, so a name declared
\* only in such files appears in no collected list and not in the output;
\* every other file is accepted, parsed and walked.
ExcludedFilesContributeNothing ==
    /\ \A p \in PkgNames : Parsed(dirs[p]) = Scanned(dirs[p])
    /\ pc = "walk" =>
          /\ walked \subseteq {f.name : f \in Scanned(dirs[Cur.name])}
          /\ ListedNames(visitor) \subseteq
                UNION {DeclNames(f) : f \in Scanned(dirs[Cur.name])}
    /\ \A i \in DOMAIN metas :
          ListedNames(metas[i]) \subseteq
             UNION {DeclNames(f) : f \in Scanned(dirs[metas[i].pkgName])}
    /\ (metas # <<>> /\ pc \in {"find", "parse", "render"}) =>
          walked = {f.name : f \in Scanned(dirs[metas[Len(metas)].pkgName])}
    /\ Rendered =>
          \A p \in PkgNames :
             BoundNames(p) \subseteq UNION {DeclNames(f) : f \in Scanned(dirs[p])}

\* A finished run over a package that has an excluded file declaring FooZ
\* and an accepted file that does not declare it.
ExcludedFileSkipped ==
    /\ pc = "done"
    /\ \E p \in PkgNames :
          /\ \E f \in dirs[p] : ExcludedName(f.name) /\ "FooZ" \in DeclNames(f)
          /\ \E f \in dirs[p] : ~ExcludedName(f.name) /\ "Bar" \in DeclNames(f)
          /\ "FooZ" \notin BoundNames(p)
          /\ "Bar" \in BoundNames(p)

IsAscending(s) == \A i, j \in DOMAIN s : i < j => ~StrLess(s[j], s[i])

\* C8: in every collected-names record appended to metas (what writeFile is
\* handed), each of the lists t, f and v is in ascending bytewise
\* (case-sensitive) order, whatever the order the declarations were visited
\* in.
ListsSorted ==
    \A i \in DOMAIN metas :
        /\ IsAscending(metas[i].t)
        /\ IsAscending(metas[i].f)
        /\ IsAscending(metas[i].v)

\* The last package's types were collected out of order and are handed over
\* sorted, the upper-case Z before the lower-case b.
SortedAfterUnorderedVisit ==
    /\ pc = "render"
    /\ ~IsAscending(visitor.t)
    /\ metas[Len(metas)].pkgName = visitor.pkgName
    /\ metas[Len(metas)].t = <<"FooZ", "Foob", "WithdrawBalanceParams">>

NoRepeats(s) == \A i, j \in DOMAIN s : i # j => s[i] # s[j]

\* C9: after the traversal of a package no name occurs more than once in
\* any of its three collected lists.
NamesUnique ==
    \A i \in DOMAIN metas :
        /\ NoRepeats(metas[i].t)
        /\ NoRepeats(metas[i].f)
        /\ NoRepeats(metas[i].v)

IsSeparator(l) == Len(l) = 2 /\ l[1] = "//////////"
IsImport(l) == Len(l) = 2 /\ l[1] = "import"
IsBinding(l, kw) == Len(l) = 4 /\ l[1] = kw

\* The lines of the buffer that make up package p's group: those after its
\* separator comment and before the next one.
SepIndex(p) == CHOOSE i \in DOMAIN buffer : buffer[i] = SeparatorLine(p)
GroupIdx(p) ==
    LET s == SepIndex(p)
    IN {j \in (s + 1)..Len(buffer) :
           \A k \in (s + 1)..j : ~IsSeparator(buffer[k])}

\* The nodes of the non-excluded files of package p.
ScannedNodes(p) ==
    UNION {Range(f.nodes) : f \in Scanned(dirs[p])}

\* The type names of package p that are to be aliased: exported, of struct
\* or identifier shape, not skip-listed.
WantedTypes(p) ==
    {n.names[1] : n \in {m \in ScannedNodes(p) :
        /\ m.kind = "TypeSpec"
        /\ IsExported(m.names[1])
        /\ m.shape \in {"StructType", "Ident"}
        /\ m.names[1] \notin skips}}

\* The rename-table entries for (typ, p).
Renames(typ, p) ==
    IF typ \in DOMAIN alias
    THEN {alias[typ][i].newName :
            i \in {j \in DOMAIN alias[typ] : alias[typ][j].pkgName = p}}
    ELSE {}

\* C2: for every package and every exported struct or identifier type
\* declared in its non-excluded files and not skip-listed, the package's
\* group holds exactly one alias line for it, under the substituted name
\* when the rename table has an entry for (name, package) and under its own
\* name when it has none; nothing else gets an alias line.
TypeAliasLines ==
    Rendered =>
      \A p \in PkgNames :
        /\ \A typ \in WantedTypes(p) :
              LET ls == {j \in GroupIdx(p) :
                           IsBinding(buffer[j], "type") /\ buffer[j][4] = typ}
              IN /\ Cardinality(ls) = 1
                 /\ \A j \in ls :
                       /\ buffer[j][3] = p
                       /\ buffer[j][2] \in
                            (IF Renames(typ, p) = {} THEN {typ}
                             ELSE Renames(typ, p))
        /\ \A j \in GroupIdx(p) :
              IsBinding(buffer[j], "type") => buffer[j][4] \in WantedTypes(p)

\* The function names of package p that are to be bound: exported, without
\* a receiver, not in the function skip set.
WantedFuncs(p) ==
    {n.names[1] : n \in {m \in ScannedNodes(p) :
        /\ m.kind = "FuncDecl"
        /\ IsExported(m.names[1])
        /\ ~m.recv
        /\ m.names[1] \notin skipFuncs}}

\* C3: for every package and every exported function without a receiver
\* declared in its non-excluded files and not in the function skip set, the
\* package's group holds exactly one line `var name = pkg.name`; methods,
\* unexported and skip-listed functions get none.
FuncBindingLines ==
    Rendered =>
      \A p \in PkgNames :
        /\ \A fn \in WantedFuncs(p) :
              Cardinality({j \in GroupIdx(p) : buffer[j] = VarLine(fn, p)}) = 1
        /\ \A j \in GroupIdx(p) :
              IsBinding(buffer[j], "var") =>
                 /\ buffer[j][2] \in WantedFuncs(p)
                 /\ buffer[j] = VarLine(buffer[j][2], p)

\* The constant and variable names of package p that are to be bound: the
\* exported allow-listed names, at any position of their declaration.
WantedVals(p) ==
    UNION {{n.names[i] : i \in {k \in DOMAIN n.names :
                IsExported(n.names[k]) /\ n.names[k] \in expectVals}} :
           n \in {m \in ScannedNodes(p) : m.kind = "ValueSpec"}}

\* C4: for every package and every exported allow-listed constant or
\* variable name declared in its non-excluded files, at whatever position
\* of its declaration, the package's group holds exactly one line
\* `const name = pkg.name`; a name off the allow-list gets none.
ConstBindingLines ==
    Rendered =>
      \A p \in PkgNames :
        /\ \A c \in WantedVals(p) :
              Cardinality({j \in GroupIdx(p) : buffer[j] = ConstLine(c, p)}) = 1
        /\ \A j \in GroupIdx(p) :
              IsBinding(buffer[j], "const") =>
                 /\ buffer[j][2] \in WantedVals(p)
                 /\ buffer[j] = ConstLine(buffer[j][2], p)

\* A second run over the same package table and source trees: the map of
\* packages and the files of each directory are iterated in an order fixed
\* once and for all, which need not be the order the first run took.
ReferenceOrder == CHOOSE o \in MapOrders(PkgNames) : TRUE

RECURSIVE ReferenceWalk(_, _, _)
ReferenceWalk(v, d, done) ==
    IF NextFiles(d, done) = {} THEN v
    ELSE LET f == CHOOSE g \in NextFiles(d, done) : TRUE
         IN ReferenceWalk(Walk(v, f.nodes), d, done \cup {f.name})

ReferenceMetas ==
    LET l == toList(ReferenceOrder)
    IN [i \in DOMAIN l |->
          SortVisitor(ReferenceWalk(NewVisitor(l[i].name), dirs[l[i].name], {}))]

\* C6: for a fixed package list and fixed source trees the output does not
\* depend on the order in which packages, files and declarations are
\* iterated: the run's buffer, and the file it writes, are those of the
\* reference run.
OutputDeterministic ==
    /\ Rendered => buffer = Render(ReferenceMetas)
    /\ pc = "done" => dst = FmtFile(Render(ReferenceMetas))

\* A finished run whose last package had two files declaring different
\* names, walked in the order that leaves the collected types unsorted.
TwoFilesWalkedUnordered ==
    /\ pc = "done"
    /\ Cardinality(walked) = 2
    /\ ~IsAscending(visitor.t)
    /\ Len(visitor.f) >= 1

ImportIdx(p) ==
    CHOOSE i \in DOMAIN buffer : buffer[i] = ImportLine(pendingPkgs[p].path)

\* C10: in the rendered buffer the import block comes before every package
\* group and holds exactly one import line per pending package, collected
\* names or not; each package has exactly one group, headed by its
\* separator comment, holding all of its lines; import lines and groups
\* follow the ascending order of package names.
ImportsThenGroups ==
    Rendered =>
      LET imps == {i \in DOMAIN buffer : IsImport(buffer[i])}
          seps == {i \in DOMAIN buffer : IsSeparator(buffer[i])}
      IN /\ \A i \in imps, j \in seps : i < j
         /\ Cardinality(imps) = Cardinality(PkgNames)
         /\ Cardinality(seps) = Cardinality(PkgNames)
         /\ \A p \in PkgNames :
               /\ Cardinality({i \in imps :
                     buffer[i] = ImportLine(pendingPkgs[p].path)}) = 1
               /\ Cardinality({j \in seps : buffer[j] = SeparatorLine(p)}) = 1
               /\ LET g == GroupIdx(p)
                  IN \A j \in DOMAIN buffer :
                        (Len(buffer[j]) = 4 /\ buffer[j][3] = p) => j \in g
         /\ \A p, q \in PkgNames :
               StrLess(p, q) =>
                  /\ ImportIdx(p) < ImportIdx(q)
                  /\ SepIndex(p) < SepIndex(q)

\* A rendered buffer for a run in which one package collected no name at
\* all and another collected some.
ImportWithoutNames ==
    /\ Rendered
    /\ \E i \in DOMAIN metas : ListedNames(metas[i]) = {}
    /\ \E i \in DOMAIN metas : metas[i].t # <<>> /\ metas[i].f # <<>>

\* C7: every forwarding method calls exactly the Internal field of its own
\* struct that bears its own name, with its own arguments in their order,
\* returns what that call returned, and leaves the function table as it
\* was.
ForwardersFaithful ==
    /\ internal = InternalFields
    /\ pcall # NoCall =>
          /\ Len(invoked) = 1
          /\ invoked[1].call = [struct |-> pcall.struct,
                                field |-> pcall.method,
                                args |-> pcall.args]
          /\ pret = invoked[1].ret

\* SectorsUnsealPiece called with arguments that differ from one another,
\* the injected function returning an error.
ForwardedSevenArguments ==
    /\ pcall # NoCall
    /\ pcall.struct = "IMarketClientStruct"
    /\ pcall.method = "SectorsUnsealPiece"
    /\ pcall.args[1] # pcall.args[7]
    /\ pret = <<1, "error">>

=============================================================================
